---------------------------- MODULE Spec2Model ----------------------------
(***************************************************************************)
(* Model of the epd17299 driver (src/epd17299.py) and of its entry point   *)
(* (src/test.py): SPIBus / SPITransaction, Epd17299.Segment and Epd17299.  *)
(*                                                                         *)
(* The program is sequential.  Every method of the source is an operator   *)
(* that yields the list of steps of its body; a step is one call of the    *)
(* host driver (pi.write, pi.set_mode, pi.read, pi.spi_open, pi.spi_write, *)
(* pi.spi_close, time.sleep), one assignment to an attribute, or a call of *)
(* another method.  `todo` is the continuation of the running program and  *)
(* `log` the trace of what the running client call has done so far.        *)
(*                                                                         *)
(* The host driver (module pigpio) is not part of the repository.  It is   *)
(* an input of the model: `strict` tells whether it checks its arguments   *)
(* as pigpio does (a pin that is no integer, a handle that is not open     *)
(* raise) or records whatever it is given, as a recording double does.     *)
(***************************************************************************)
EXTENDS Integers, Sequences, FiniteSets, TLC

VARIABLES
    strict,       \* the host driver checks its arguments
    client,       \* which client program runs: "main", "panel", "segment", "bus"
    sut,          \* the segment the "segment" client drives
    stuck,        \* the segments whose busy pin never reads idle
    todo,         \* continuation: the steps still to run
    log,          \* events of the current client call
    exc,          \* the exception in flight, "none" when there is none
    pinLevel,     \* last level written per pin key
    pinMode,      \* mode set per pin key
    initialized,  \* Segment._initialized
    hasDev,       \* Segment._dev is not None
    spi,          \* Segment._dev._spi, NoHandle for None
    nextHandle,   \* next handle pi.spi_open hands out
    openHandles,  \* handles open in the host driver
    flags,        \* SPIBus.flags of each bus object
    ctxStack,     \* Epd17299._context_stack: segments whose __exit__ is registered
    txStack,      \* segments of the transactions whose scope is open, innermost last
    disp,         \* the value bound by `with Epd17299() as disp`
    callsLeft,    \* client calls still allowed
    faultsLeft,   \* bus write failures still allowed
    busyLeft,     \* busy reads that may still return "busy"
    hist,         \* summaries of the completed client calls
    pc            \* "run", "done" or "crashed"

vars == << strict, client, sut, stuck, todo, log, exc, pinLevel, pinMode, initialized,
           hasDev, spi, nextHandle, openHandles, flags, ctxStack, txStack, disp,
           callsLeft, faultsLeft, busyLeft, hist, pc >>

----------------------------------------------------------------------------
(* Bounds of the model *)

MaxCalls == 3
MaxFaults == 1
MaxBusy == 2

----------------------------------------------------------------------------
(* Constants of the program *)

\* SPIBus._spi = None
NoHandle == -1

\* class SegmentName, in the order Epd17299.__init__ constructs the segments
Segs == {"M1", "S1", "M2", "S2"}

\* the owners of a bus object: the four segments (Segment._dev) and a client
\* that makes an SPIBus of its own
Owners == Segs \cup { "bus" }

\* class SPIPort and class SPIMode, by value
SPIPort(bus) == IF bus = "MAIN" THEN 0 ELSE 1
SPIPorts == { "MAIN", "AUXILIARY" }
SPIModes == 0..3
SPIEndian_MSB_FIRST == 0
SPIWireMode_FOUR_WIRE == 0

\* the keyword arguments of the four Segment(...) calls of Epd17299.__init__
SegArgs(s) ==
    CASE s = "S2" -> [left |-> 0,   top |-> 0,   width |-> 648, height |-> 492,
                      cs |-> 18, dc |-> 22, rst |-> 23, busy |-> 24]
      [] s = "M1" -> [left |-> 0,   top |-> 492, width |-> 648, height |-> 492,
                      cs |-> 8,  dc |-> 13, rst |-> 6,  busy |-> 5]
      [] s = "S1" -> [left |-> 648, top |-> 0,   width |-> 656, height |-> 492,
                      cs |-> 7,  dc |-> 13, rst |-> 6,  busy |-> 19]
      [] s = "M2" -> [left |-> 648, top |-> 492, width |-> 656, height |-> 492,
                      cs |-> 17, dc |-> 22, rst |-> 23, busy |-> 27]

\* `self.reset` is the bound method Segment.reset, not the pin number
\* `self.rst`: as an argument of pi.write it is a key that is no GPIO number.
ResetMethod(s) ==
    CASE s = "M1" -> 100 [] s = "S1" -> 101 [] s = "M2" -> 102 [] s = "S2" -> 103

Gpios == UNION { {SegArgs(s).cs, SegArgs(s).dc, SegArgs(s).rst, SegArgs(s).busy} : s \in Segs }
Keys == Gpios \cup { ResetMethod(s) : s \in Segs }

lut_vcom1 ==
    << 0, 16, 16, 1, 8, 1,
       0, 6, 1, 6, 1, 5,
       0, 8, 1, 8, 1, 6,
       0, 6, 1, 6, 1, 5,
       0, 5, 1, 30, 15, 6,
       0, 5, 1, 30, 15, 1,
       0, 4, 5, 8, 8, 1,
       0, 0, 0, 0, 0, 0,
       0, 0, 0, 0, 0, 0,
       0, 0, 0, 0, 0, 0 >>

lut_ww1 ==
    << 145, 16, 16, 1, 8, 1,
       4, 6, 1, 6, 1, 5,
       132, 8, 1, 8, 1, 6,
       128, 6, 1, 6, 1, 5,
       0, 5, 1, 30, 15, 6,
       0, 5, 1, 30, 15, 1,
       8, 4, 5, 8, 8, 1,
       0, 0, 0, 0, 0, 0,
       0, 0, 0, 0, 0, 0,
       0, 0, 0, 0, 0, 0 >>

lut_bw1 ==
    << 168, 16, 16, 1, 8, 1,
       132, 6, 1, 6, 1, 5,
       132, 8, 1, 8, 1, 6,
       134, 6, 1, 6, 1, 5,
       140, 5, 1, 30, 15, 6,
       140, 5, 1, 30, 15, 1,
       240, 4, 5, 8, 8, 1,
       0, 0, 0, 0, 0, 0,
       0, 0, 0, 0, 0, 0,
       0, 0, 0, 0, 0, 0 >>

lut_wb1 ==
    << 145, 16, 16, 1, 8, 1,
       4, 6, 1, 6, 1, 5,
       132, 8, 1, 8, 1, 6,
       128, 6, 1, 6, 1, 5,
       0, 5, 1, 30, 15, 6,
       0, 5, 1, 30, 15, 1,
       8, 4, 5, 8, 8, 1,
       0, 0, 0, 0, 0, 0,
       0, 0, 0, 0, 0, 0,
       0, 0, 0, 0, 0, 0 >>

lut_bb1 ==
    << 146, 16, 16, 1, 8, 1,
       128, 6, 1, 6, 1, 5,
       132, 8, 1, 8, 1, 6,
       4, 6, 1, 6, 1, 5,
       0, 5, 1, 30, 15, 6,
       0, 5, 1, 30, 15, 1,
       1, 4, 5, 8, 8, 1,
       0, 0, 0, 0, 0, 0,
       0, 0, 0, 0, 0, 0,
       0, 0, 0, 0, 0, 0 >>

----------------------------------------------------------------------------
(* Byte strings.  A bytes object is a sequence of runs <<byte, count>>, so  *)
(* that b'\xFF' * (648 * 492) is one run and not 318816 elements.           *)

\* the arguments of SPITransaction.write: an int, a tuple or list, a bytes object
IntArg(d) == [int |-> d]
SeqArg(t) == [seq |-> t]
BytesArg(b) == [bytes |-> b]

\* bytes((data,))
BytesOfInt(d) == << <<d, 1>> >>
\* bytes(data) of a tuple or a list
BytesOfSeq(t) == [i \in 1..Len(t) |-> <<t[i], 1>>]
\* b'\xNN' * n
BytesRepeat(b, n) == IF n <= 0 THEN << >> ELSE << <<b, n>> >>
\* struct.pack('>HH', a, b): two big-endian unsigned 16-bit integers
StructPackHH(a, b) ==
    BytesOfSeq(<< (a \div 256) % 256, a % 256, (b \div 256) % 256, b % 256 >>)

RECURSIVE BytesLen(_)
BytesLen(b) == IF b = << >> THEN 0 ELSE Head(b)[2] + BytesLen(Tail(b))

AllBytes(b, v) == \A i \in 1..Len(b) : b[i][1] = v

\* the isinstance chain of SPITransaction.write
ToBytes(data) ==
    IF "bytes" \in DOMAIN data THEN data.bytes
    ELSE IF "seq" \in DOMAIN data THEN BytesOfSeq(data.seq)
    ELSE BytesOfInt(data.int)

----------------------------------------------------------------------------
(* Steps *)

IPin(key, lvl) == [op |-> "pin", key |-> key, lvl |-> lvl]
IMode(key, mode) == [op |-> "mode", key |-> key, mode |-> mode]
ISleep(ms) == [op |-> "sleep", ms |-> ms]
ISpiWrite(s, b) == [op |-> "spi_write", seg |-> s, bytes |-> b]
ISpiOpen(s) == [op |-> "spi_open", seg |-> s]
ISpiClose(s) == [op |-> "spi_close", seg |-> s]
IRead(s) == [op |-> "read", seg |-> s]
ISetInit(s) == [op |-> "set_initialized", seg |-> s]
ITxEnter(s) == [op |-> "tx_enter", seg |-> s]
ITxExit(s) == [op |-> "tx_exit", seg |-> s]
IWrite(s, data, command) == [op |-> "write", seg |-> s, data |-> data, command |-> command]
ICall(m, s) == [op |-> "call", m |-> m, seg |-> s]
IRet(m, s) == [op |-> "ret", m |-> m, seg |-> s]
IPushExit(s) == [op |-> "push_exit", seg |-> s]
IBind == [op |-> "bind"]
IBody == [op |-> "body"]
IWithExit == [op |-> "with_exit"]
IDispClear == [op |-> "disp_clear"]
INewBusWith(s, bus, busmode) ==
    [op |-> "new_bus", seg |-> s, bus |-> bus, busmode |-> busmode]
INewBus(s) == INewBusWith(s, "MAIN", 0)
IChooseBus == [op |-> "choose_bus"]
INewStack == [op |-> "new_stack"]
ILoop(s) == [op |-> "loop", seg |-> s]
IGetAttr(s, name) == [op |-> "getattr", seg |-> s, name |-> name]
IChoose == [op |-> "choose"]
IAfter == [op |-> "after"]
ICatch == [op |-> "catch"]
IEnd == [op |-> "end"]


----------------------------------------------------------------------------
(* GPIO helpers *)

\* the level set_GPIO_active writes
ActiveLevel(polarity) == IF polarity = "ACTIVE_LOW" THEN "LOW" ELSE "HIGH"
\* the level clear_GPIO_idle writes
IdleLevel(polarity) == IF polarity = "ACTIVE_LOW" THEN "HIGH" ELSE "LOW"

set_GPIO_active(pin, polarity) == << IPin(pin, ActiveLevel(polarity)) >>
clear_GPIO_idle(pin, polarity) == << IPin(pin, IdleLevel(polarity)) >>

----------------------------------------------------------------------------
(* SPIBus.__init__ *)

\* the locals of SPIBus.__init__
hwcs == 7
cspol == 0
threewirebytes == 0
wordsize == 0

\* self.flags: the fields are or-ed at disjoint bit positions (hwcs and cspol
\* have three bits, busmode two, bus one), so the bitwise or is the sum
SPIBus_flags(bus, busmode) ==
      wordsize * 65536
    + SPIEndian_MSB_FIRST * 32768
    + SPIEndian_MSB_FIRST * 16384
    + threewirebytes * 1024
    + SPIWireMode_FOUR_WIRE * 512
    + SPIPort(bus) * 256
    + hwcs * 32
    + cspol * 4
    + busmode

----------------------------------------------------------------------------
(* SPIBus.transaction and SPITransaction.write *)

\* `with self._dev.transaction(cs=self.cs, dc=self.dc) as tx: body`
WithTransaction(s, body) == << ITxEnter(s) >> \o body \o << ITxExit(s) >>

\* write with the data/command pin set after the transfer instead of before it
SPITransaction_write_PinAfterTransfer(s, data, command) ==
    << ISpiWrite(s, ToBytes(data)) >>
    \o (IF command THEN set_GPIO_active(SegArgs(s).dc, "ACTIVE_LOW")
                    ELSE clear_GPIO_idle(SegArgs(s).dc, "ACTIVE_LOW"))
    \o clear_GPIO_idle(SegArgs(s).dc, "ACTIVE_LOW")

\* SPITransaction.write(data, command): data/command pin, transfer, pin back to idle
SPITransaction_write(s, data, command) ==
    (IF command THEN set_GPIO_active(SegArgs(s).dc, "ACTIVE_LOW")
                ELSE clear_GPIO_idle(SegArgs(s).dc, "ACTIVE_LOW"))
    \o << ISpiWrite(s, ToBytes(data)) >>
    \o clear_GPIO_idle(SegArgs(s).dc, "ACTIVE_LOW")

----------------------------------------------------------------------------
(* Epd17299.Segment *)

Segment_reset(s) ==
    << IPin(ResetMethod(s), "HIGH"), ISleep(200),
       IPin(ResetMethod(s), "LOW"),  ISleep(10),
       IPin(ResetMethod(s), "HIGH"), ISleep(200) >>

Segment_init(s) ==
    << IMode(SegArgs(s).cs, "OUTPUT"), IMode(SegArgs(s).rst, "OUTPUT"),
       IMode(SegArgs(s).dc, "OUTPUT"), IMode(SegArgs(s).busy, "INPUT") >>
    \o clear_GPIO_idle(SegArgs(s).cs, "ACTIVE_LOW")
    \o set_GPIO_active(SegArgs(s).rst, "ACTIVE_LOW")
    \o clear_GPIO_idle(SegArgs(s).dc, "ACTIVE_LOW")
    \o << ICall("Segment.reset", s) >>

\* send_lut with the black-to-black table repeated in the sixth slot
Segment_send_lut_WrongSixth(s) ==
    WithTransaction(s,
        << IWrite(s, IntArg(32), TRUE), IWrite(s, SeqArg(lut_vcom1), FALSE),
           IWrite(s, IntArg(33), TRUE), IWrite(s, SeqArg(lut_ww1), FALSE),
           IWrite(s, IntArg(34), TRUE), IWrite(s, SeqArg(lut_bw1), FALSE),
           IWrite(s, IntArg(35), TRUE), IWrite(s, SeqArg(lut_wb1), FALSE),
           IWrite(s, IntArg(36), TRUE), IWrite(s, SeqArg(lut_bb1), FALSE),
           IWrite(s, IntArg(37), TRUE), IWrite(s, SeqArg(lut_bb1), FALSE) >>)

Segment_send_lut(s) ==
    WithTransaction(s,
        << IWrite(s, IntArg(32), TRUE), IWrite(s, SeqArg(lut_vcom1), FALSE),
           IWrite(s, IntArg(33), TRUE), IWrite(s, SeqArg(lut_ww1), FALSE),
           IWrite(s, IntArg(34), TRUE), IWrite(s, SeqArg(lut_bw1), FALSE),
           IWrite(s, IntArg(35), TRUE), IWrite(s, SeqArg(lut_wb1), FALSE),
           IWrite(s, IntArg(36), TRUE), IWrite(s, SeqArg(lut_bb1), FALSE),
           IWrite(s, IntArg(37), TRUE), IWrite(s, SeqArg(lut_ww1), FALSE) >>)

\* the body of the `with` of _init_display with the power-setting command
\* sent whatever the segment is
InitDisplayWrites_PowerToAll(s) ==
    << IWrite(s, IntArg(0), TRUE),
       IWrite(s, IntArg(IF s = "M1" \/ s = "S1" THEN 47 ELSE 35), FALSE),
       IWrite(s, IntArg(1), TRUE),
       IWrite(s, SeqArg(<< 7, 23, 63, 63, 13 >>), FALSE) >>
    \o (IF s = "M1" \/ s = "M2"
        THEN << IWrite(s, IntArg(6), TRUE),
                IWrite(s, SeqArg(<< 23, 23, 57, 23 >>), FALSE) >>
        ELSE << >>)
    \o << IWrite(s, IntArg(97), TRUE),
          IWrite(s, BytesArg(StructPackHH(SegArgs(s).width, SegArgs(s).height)), FALSE),
          IWrite(s, IntArg(21), TRUE), IWrite(s, IntArg(32), FALSE),
          IWrite(s, IntArg(21), TRUE), IWrite(s, IntArg(8), FALSE),
          IWrite(s, IntArg(80), TRUE), IWrite(s, SeqArg(<< 49, 7 >>), FALSE),
          IWrite(s, IntArg(96), TRUE), IWrite(s, IntArg(34), FALSE) >>
    \o (IF s = "M1" \/ s = "M2"
        THEN << IWrite(s, IntArg(224), TRUE), IWrite(s, IntArg(1), FALSE) >>
        ELSE << >>)
    \o << IWrite(s, IntArg(227), TRUE), IWrite(s, IntArg(0), FALSE) >>
    \o (IF s = "M1" \/ s = "M2"
        THEN << IWrite(s, IntArg(130), TRUE), IWrite(s, IntArg(28), FALSE) >>
        ELSE << >>)
    \o << ICall("Segment.send_lut", s) >>

\* the body of the `with` of _init_display
InitDisplayWrites(s) ==
    << IWrite(s, IntArg(0), TRUE),
       IWrite(s, IntArg(IF s = "M1" \/ s = "S1" THEN 47 ELSE 35), FALSE) >>
    \o (IF s = "M1" \/ s = "M2"
        THEN << IWrite(s, IntArg(1), TRUE),
                IWrite(s, SeqArg(<< 7, 23, 63, 63, 13 >>), FALSE) >>
        ELSE << >>)
    \o (IF s = "M1" \/ s = "M2"
        THEN << IWrite(s, IntArg(6), TRUE),
                IWrite(s, SeqArg(<< 23, 23, 57, 23 >>), FALSE) >>
        ELSE << >>)
    \o << IWrite(s, IntArg(97), TRUE),
          IWrite(s, BytesArg(StructPackHH(SegArgs(s).width, SegArgs(s).height)), FALSE),
          IWrite(s, IntArg(21), TRUE), IWrite(s, IntArg(32), FALSE),
          IWrite(s, IntArg(21), TRUE), IWrite(s, IntArg(8), FALSE),
          IWrite(s, IntArg(80), TRUE), IWrite(s, SeqArg(<< 49, 7 >>), FALSE),
          IWrite(s, IntArg(96), TRUE), IWrite(s, IntArg(34), FALSE) >>
    \o (IF s = "M1" \/ s = "M2"
        THEN << IWrite(s, IntArg(224), TRUE), IWrite(s, IntArg(1), FALSE) >>
        ELSE << >>)
    \o << IWrite(s, IntArg(227), TRUE), IWrite(s, IntArg(0), FALSE) >>
    \o (IF s = "M1" \/ s = "M2"
        THEN << IWrite(s, IntArg(130), TRUE), IWrite(s, IntArg(28), FALSE) >>
        ELSE << >>)
    \o << ICall("Segment.send_lut", s) >>

\* _init_display without its `if self._initialized: return`
Segment_init_display_NoGuard(s) ==
    << ISetInit(s) >> \o WithTransaction(s, InitDisplayWrites(s))

Segment_init_display(s) ==
    IF initialized[s]
    THEN << >>
    ELSE << ISetInit(s) >> \o WithTransaction(s, InitDisplayWrites(s))

Segment_enter(s) ==
    << INewBus(s), ISpiOpen(s), ICall("Segment._init_display", s) >>

Segment_exit(s) == << ISpiClose(s) >>

\* one iteration of the `while True:` of wait_on_busy, and the loop again
Segment_wait_on_busy(s) ==
    WithTransaction(s, << IWrite(s, IntArg(113), TRUE), IRead(s) >>)
    \o << ILoop(s) >>

\* turn_on with self.wait_on_busy() inside the `with` block
Segment_turn_on_WaitInside(s) ==
    WithTransaction(s,
        (IF s = "M1" \/ s = "M2" THEN << IWrite(s, IntArg(4), TRUE) >> ELSE << >>)
        \o << ISleep(300), IWrite(s, IntArg(18), TRUE) >>
        \o << ICall("Segment.wait_on_busy", s) >>)

Segment_turn_on(s) ==
    WithTransaction(s,
        (IF s = "M1" \/ s = "M2" THEN << IWrite(s, IntArg(4), TRUE) >> ELSE << >>)
        \o << ISleep(300), IWrite(s, IntArg(18), TRUE) >>)
    \o << ICall("Segment.wait_on_busy", s) >>

Segment_sleep(s) ==
    WithTransaction(s,
        << IWrite(s, IntArg(2), TRUE), ISleep(300),
           IWrite(s, IntArg(7), TRUE), IWrite(s, IntArg(165), FALSE), ISleep(300),
           IPin(ResetMethod(s), "LOW"),
           IPin(SegArgs(s).dc, "LOW"),
           IPin(SegArgs(s).cs, "HIGH") >>)

Segment_clear(s) ==
    WithTransaction(s,
        << IWrite(s, IntArg(16), TRUE),
           IWrite(s, BytesArg(BytesRepeat(255, SegArgs(s).width * SegArgs(s).height)), FALSE),
           IWrite(s, IntArg(19), TRUE),
           IWrite(s, BytesArg(BytesRepeat(0, SegArgs(s).width * SegArgs(s).height)), FALSE) >>)

\* the attributes a Segment has: those __init__ assigns, the class attributes
\* and the methods
SegmentAttrs ==
    { "name", "pi", "left", "top", "width", "height", "cs", "dc", "rst", "busy",
      "_dev", "_initialized", "_lut_vcom1", "_lut_ww1", "_lut_bw1", "_lut_wb1",
      "_lut_bb1", "_init_display", "reset", "send_lut", "wait_on_busy", "turn_on",
      "sleep", "clear", "display" }

\* display(image): the two planes are taken from self.canvas; nothing is sent
Segment_display(s) == << IGetAttr(s, "canvas"), IGetAttr(s, "canvas") >>

----------------------------------------------------------------------------
(* Epd17299 *)

Epd17299_init ==
    << ICall("Segment.__init__", "S2"), ICall("Segment.__init__", "M1"),
       ICall("Segment.__init__", "S1"), ICall("Segment.__init__", "M2") >>

Epd17299_enter ==
    << INewStack,
       ICall("Segment.__enter__", "S2"), IPushExit("S2"),
       ICall("Segment.__enter__", "M1"), IPushExit("M1"),
       ICall("Segment.__enter__", "S1"), IPushExit("S1"),
       ICall("Segment.__enter__", "M2"), IPushExit("M2") >>

\* what Epd17299.__enter__ returns: it has no return statement
Epd17299_enter_result == "None"

\* ExitStack.__exit__: the registered Segment.__exit__, last registered first
Epd17299_exit ==
    [i \in 1..Len(ctxStack) |->
        ICall("Segment.__exit__", ctxStack[Len(ctxStack) + 1 - i])]

Epd17299_turn_on_display ==
    << ICall("Segment.turn_on", "M1"), ICall("Segment.turn_on", "M2"),
       ICall("Segment.turn_on", "S1"), ICall("Segment.turn_on", "S2") >>

\* clear with the turn-on pass started before S2 is cleared
Epd17299_clear_TurnOnEarly ==
    << ICall("Segment.clear", "M1"), ICall("Segment.clear", "M2"),
       ICall("Segment.clear", "S1"), ICall("Epd17299.turn_on_display", "-"),
       ICall("Segment.clear", "S2") >>

Epd17299_clear ==
    << ICall("Segment.clear", "M1"), ICall("Segment.clear", "M2"),
       ICall("Segment.clear", "S1"), ICall("Segment.clear", "S2"),
       ICall("Epd17299.turn_on_display", "-") >>

Epd17299_sleep ==
    << ICall("Segment.sleep", "M1"), ICall("Segment.sleep", "M2"),
       ICall("Segment.sleep", "S1"), ICall("Segment.sleep", "S2") >>

\* `def display(self): pass`: no parameter besides self, an empty body
Epd17299_display_params == 0
Epd17299_display == << >>

----------------------------------------------------------------------------
(* Client programs *)

\* src/test.py: `with Epd17299() as disp: disp.clear()`
MainProgram ==
    << ICall("Epd17299.__init__", "-"), ICall("Epd17299.__enter__", "-"),
       IBind, IBody, IEnd >>

\* a client that keeps the panel: `p = Epd17299()`, then `with p:` some calls
\* on p, each of them inside a try/except or not
PanelProgram ==
    << ICall("Epd17299.__init__", "-"), ICall("Epd17299.__enter__", "-"),
       IBody, IEnd >>

\* a client that drives one segment of a panel and catches what a call raises
SegmentProgram ==
    << ICall("Epd17299.__init__", "-"), IChoose, IEnd >>

\* a client of SPIBus alone: `with SPIBus(pi, speed, bus, busmode): pass`
BusProgram == << IChooseBus, IEnd >>

Program(c) ==
    CASE c = "main" -> MainProgram
      [] c = "panel" -> PanelProgram
      [] c = "segment" -> SegmentProgram
      [] c = "bus" -> BusProgram

PanelMethods ==
    { "Epd17299.clear", "Epd17299.sleep", "Epd17299.turn_on_display",
      "Epd17299.display" }

SegmentMethods ==
    { "Segment.__enter__", "Segment.__exit__", "Segment.reset", "Segment.send_lut",
      "Segment.wait_on_busy", "Segment.turn_on", "Segment.sleep", "Segment.clear",
      "Segment.display" }

----------------------------------------------------------------------------
(* Exceptions *)

\* the steps that run when an exception passes: the exit of a `with` whose
\* body was entered, the client's except clause, the end of the program
Handlers == { "with_exit", "catch", "end" }

RECURSIVE Unwind(_)
Unwind(t) ==
    IF t = << >> THEN << >>
    ELSE IF Head(t).op \in Handlers THEN t
    ELSE Unwind(Tail(t))

\* SPIBus.transaction up to its yield
SPIBus_transaction_enter(s) == set_GPIO_active(SegArgs(s).cs, "ACTIVE_LOW")
\* SPIBus.transaction after its yield, when the body ended normally
SPIBus_transaction_exit(s) == clear_GPIO_idle(SegArgs(s).cs, "ACTIVE_LOW")
\* SPIBus.transaction when the body raised: the generator has no try/finally,
\* the exception leaves it at the yield
SPIBus_transaction_onerror(s) == << >>

\* the open transactions left by an exception, innermost first
RECURSIVE AbortEvents(_)
AbortEvents(stack) ==
    IF stack = << >> THEN << >>
    ELSE LET s == stack[Len(stack)] IN
         << [op |-> "tx_exit", seg |-> s, how |-> "error"] >>
         \o SPIBus_transaction_onerror(s)
         \o << [op |-> "tx_closed", seg |-> s] >>
         \o AbortEvents(SubSeq(stack, 1, Len(stack) - 1))

RECURSIVE ApplyPins(_, _)
ApplyPins(levels, events) ==
    IF events = << >> THEN levels
    ELSE LET e == Head(events) IN
         ApplyPins(IF e.op = "pin" THEN [levels EXCEPT ![e.key] = e.lvl] ELSE levels,
                   Tail(events))

Step(op) == pc = "run" /\ todo # << >> /\ Head(todo).op = op

RaiseExc(e, pre) ==
    /\ exc' = e
    /\ log' = log \o pre \o << [op |-> "raise", exc |-> e] >> \o AbortEvents(txStack)
    /\ pinLevel' = ApplyPins(pinLevel, AbortEvents(txStack))
    /\ txStack' = << >>
    /\ todo' = Unwind(todo)

envVars == << strict, client, sut, stuck >>
busVars == << hasDev, spi, nextHandle, openHandles, flags >>
budgetVars == << callsLeft, faultsLeft, busyLeft >>

----------------------------------------------------------------------------
(* Host driver steps *)

PiSetMode ==
    /\ Step("mode")
    /\ pinMode' = [pinMode EXCEPT ![Head(todo).key] = Head(todo).mode]
    /\ log' = Append(log, Head(todo))
    /\ todo' = Tail(todo)
    /\ UNCHANGED << envVars, busVars, budgetVars, exc, pinLevel, initialized,
                    ctxStack, txStack, disp, hist, pc >>

PiWrite ==
    /\ Step("pin")
    /\ ~(strict /\ Head(todo).key \notin Gpios)
    /\ pinLevel' = [pinLevel EXCEPT ![Head(todo).key] = Head(todo).lvl]
    /\ log' = Append(log, Head(todo))
    /\ todo' = Tail(todo)
    /\ UNCHANGED << envVars, busVars, budgetVars, exc, pinMode, initialized,
                    ctxStack, txStack, disp, hist, pc >>

\* pigpio packs the pin number into its command: a bound method is no integer
PiWriteBadPin ==
    /\ Step("pin")
    /\ strict /\ Head(todo).key \notin Gpios
    /\ RaiseExc("TypeError", << >>)
    /\ UNCHANGED << envVars, busVars, budgetVars, pinMode, initialized,
                    ctxStack, disp, hist, pc >>

TimeSleep ==
    /\ Step("sleep")
    /\ log' = Append(log, Head(todo))
    /\ todo' = Tail(todo)
    /\ UNCHANGED << envVars, busVars, budgetVars, exc, pinLevel, pinMode, initialized,
                    ctxStack, txStack, disp, hist, pc >>

\* the client's SPIBus(pi, speed, bus, busmode), opened and closed by a `with`
ChooseBus ==
    /\ Step("choose_bus")
    /\ \E bus \in SPIPorts, busmode \in SPIModes :
         todo' = << INewBusWith("bus", bus, busmode), ISpiOpen("bus"),
                    ISpiClose("bus") >> \o Tail(todo)
    /\ UNCHANGED << envVars, busVars, budgetVars, log, exc, pinLevel, pinMode,
                    initialized, ctxStack, txStack, disp, hist, pc >>

\* self._dev = SPIBus(...): a new object, whose _spi is the class attribute None
NewBus ==
    /\ Step("new_bus")
    /\ hasDev' = [hasDev EXCEPT ![Head(todo).seg] = TRUE]
    /\ spi' = [spi EXCEPT ![Head(todo).seg] = NoHandle]
    /\ flags' = [flags EXCEPT ![Head(todo).seg] =
                     SPIBus_flags(Head(todo).bus, Head(todo).busmode)]
    /\ todo' = Tail(todo)
    /\ UNCHANGED << envVars, budgetVars, nextHandle, openHandles, log, exc, pinLevel,
                    pinMode, initialized, ctxStack, txStack, disp, hist, pc >>

\* SPIBus.__enter__
SpiOpen ==
    /\ Step("spi_open")
    /\ spi' = [spi EXCEPT ![Head(todo).seg] = nextHandle]
    /\ openHandles' = openHandles \cup {nextHandle}
    /\ nextHandle' = nextHandle + 1
    /\ log' = Append(log, [op |-> "spi_open", seg |-> Head(todo).seg, h |-> nextHandle])
    /\ todo' = Tail(todo)
    /\ UNCHANGED << envVars, budgetVars, hasDev, flags, exc, pinLevel, pinMode, initialized,
                    ctxStack, txStack, disp, hist, pc >>

\* SPIBus.__exit__
SpiClose ==
    /\ Step("spi_close")
    /\ hasDev[Head(todo).seg]
    /\ openHandles' = openHandles \ {spi[Head(todo).seg]}
    /\ spi' = [spi EXCEPT ![Head(todo).seg] = NoHandle]
    /\ log' = Append(log, [op |-> "spi_close", seg |-> Head(todo).seg,
                           h |-> spi[Head(todo).seg]])
    /\ todo' = Tail(todo)
    /\ UNCHANGED << envVars, budgetVars, hasDev, nextHandle, flags, exc, pinLevel,
                    pinMode, initialized, ctxStack, txStack, disp, hist, pc >>

\* pi.spi_write succeeds; `command` is what the data/command line says meanwhile
SpiWrite ==
    /\ Step("spi_write")
    /\ LET s == Head(todo).seg IN
       log' = Append(log, [op |-> "spi", seg |-> s, h |-> spi[s],
                           command |-> (pinLevel[SegArgs(s).dc] = ActiveLevel("ACTIVE_LOW")),
                           bytes |-> Head(todo).bytes])
    /\ todo' = Tail(todo)
    /\ UNCHANGED << envVars, busVars, budgetVars, exc, pinLevel, pinMode, initialized,
                    ctxStack, txStack, disp, hist, pc >>

\* pi.spi_write raises
SpiWriteFail ==
    /\ Step("spi_write")
    /\ faultsLeft > 0
    /\ faultsLeft' = faultsLeft - 1
    /\ RaiseExc("IoError", << [op |-> "spi_error", seg |-> Head(todo).seg] >>)
    /\ UNCHANGED << envVars, busVars, callsLeft, busyLeft, pinMode, initialized,
                    ctxStack, disp, hist, pc >>

\* wait_on_busy leaving its loop when the busy pin reads 1
PiRead_BreakOnBusy ==
    /\ Step("read")
    /\ \E v \in {0, 1} :
        /\ v = 1 => busyLeft > 0
        /\ busyLeft' = IF v = 1 THEN busyLeft - 1 ELSE busyLeft
        /\ log' = Append(log, [op |-> "read", seg |-> Head(todo).seg,
                               key |-> SegArgs(Head(todo).seg).busy, val |-> v])
        /\ todo' = IF v = 1
                   THEN << todo[2] >> \o SubSeq(todo, 4, Len(todo))
                   ELSE Tail(todo)
    /\ UNCHANGED << envVars, busVars, callsLeft, faultsLeft, exc, pinLevel, pinMode,
                    initialized, ctxStack, txStack, disp, hist, pc >>

\* `if self.pi.read(self.busy) == 0: break  else: continue`
PiRead ==
    /\ Step("read")
    /\ \E v \in {0, 1} :
        /\ v = 1 => busyLeft > 0
        /\ busyLeft' = IF v = 1 THEN busyLeft - 1 ELSE busyLeft
        /\ log' = Append(log, [op |-> "read", seg |-> Head(todo).seg,
                               key |-> SegArgs(Head(todo).seg).busy, val |-> v])
        /\ todo' = IF v = 0
                   THEN << todo[2] >> \o SubSeq(todo, 4, Len(todo))
                   ELSE Tail(todo)
    /\ UNCHANGED << envVars, busVars, callsLeft, faultsLeft, exc, pinLevel, pinMode,
                    initialized, ctxStack, txStack, disp, hist, pc >>

\* `while True:` once more
WhileTrue ==
    /\ Step("loop")
    /\ todo' = Segment_wait_on_busy(Head(todo).seg) \o Tail(todo)
    /\ UNCHANGED << envVars, busVars, budgetVars, log, exc, pinLevel, pinMode,
                    initialized, ctxStack, txStack, disp, hist, pc >>

----------------------------------------------------------------------------
(* Program steps *)

\* self._initialized = True
SetInitialized ==
    /\ Step("set_initialized")
    /\ initialized' = [initialized EXCEPT ![Head(todo).seg] = TRUE]
    /\ log' = Append(log, Head(todo))
    /\ todo' = Tail(todo)
    /\ UNCHANGED << envVars, busVars, budgetVars, exc, pinLevel, pinMode,
                    ctxStack, txStack, disp, hist, pc >>

\* entering `with self._dev.transaction(...) as tx`
TransactionEnter ==
    /\ Step("tx_enter")
    /\ hasDev[Head(todo).seg]
    /\ LET s == Head(todo).seg
           evs == SPIBus_transaction_enter(s) \o << [op |-> "tx_open", seg |-> s] >>
       IN /\ log' = log \o evs
          /\ pinLevel' = ApplyPins(pinLevel, evs)
          /\ txStack' = Append(txStack, s)
    /\ todo' = Tail(todo)
    /\ UNCHANGED << envVars, busVars, budgetVars, exc, pinMode, initialized,
                    ctxStack, disp, hist, pc >>

\* leaving the `with` of a transaction at the end of its body, by break or by continue
TransactionExit ==
    /\ Step("tx_exit")
    /\ LET s == Head(todo).seg
           evs == << [op |-> "tx_exit", seg |-> s, how |-> "normal"] >>
                  \o SPIBus_transaction_exit(s)
                  \o << [op |-> "tx_closed", seg |-> s] >>
       IN /\ log' = log \o evs
          /\ pinLevel' = ApplyPins(pinLevel, evs)
          /\ txStack' = SubSeq(txStack, 1, Len(txStack) - 1)
    /\ todo' = Tail(todo)
    /\ UNCHANGED << envVars, busVars, budgetVars, exc, pinMode, initialized,
                    ctxStack, disp, hist, pc >>

\* tx.write(data, command)
Write ==
    /\ Step("write")
    /\ log' = Append(log, [op |-> "write", seg |-> Head(todo).seg,
                           command |-> Head(todo).command])
    /\ todo' = SPITransaction_write(Head(todo).seg, Head(todo).data, Head(todo).command)
               \o Tail(todo)
    /\ UNCHANGED << envVars, busVars, budgetVars, exc, pinLevel, pinMode,
                    initialized, ctxStack, txStack, disp, hist, pc >>

\* an attribute of None: self._dev.transaction, self._dev.__exit__
NoneAttribute ==
    /\ \/ Step("tx_enter") /\ ~hasDev[Head(todo).seg]
       \/ Step("spi_close") /\ ~hasDev[Head(todo).seg]
    /\ RaiseExc("AttributeError", << >>)
    /\ UNCHANGED << envVars, busVars, budgetVars, pinMode, initialized,
                    ctxStack, disp, hist, pc >>

\* a call of method m: its body, then its return
Invoke(m, body) ==
    /\ Head(todo).m = m
    /\ log' = Append(log, Head(todo))
    /\ todo' = body \o << IRet(m, Head(todo).seg) >> \o Tail(todo)
    /\ UNCHANGED << envVars, busVars, budgetVars, exc, pinLevel, pinMode,
                    initialized, ctxStack, txStack, disp, hist, pc >>

Call_Segment_init ==
    /\ Step("call")
    /\ Invoke("Segment.__init__", Segment_init(Head(todo).seg))

Call_Segment_reset ==
    /\ Step("call")
    /\ Invoke("Segment.reset", Segment_reset(Head(todo).seg))

Call_Segment_init_display ==
    /\ Step("call")
    /\ Invoke("Segment._init_display", Segment_init_display(Head(todo).seg))

Call_Segment_enter ==
    /\ Step("call")
    /\ Invoke("Segment.__enter__", Segment_enter(Head(todo).seg))

Call_Segment_exit ==
    /\ Step("call")
    /\ Invoke("Segment.__exit__", Segment_exit(Head(todo).seg))

Call_Segment_send_lut ==
    /\ Step("call")
    /\ Invoke("Segment.send_lut", Segment_send_lut(Head(todo).seg))

Call_Segment_wait_on_busy ==
    /\ Step("call")
    /\ Invoke("Segment.wait_on_busy", Segment_wait_on_busy(Head(todo).seg))

Call_Segment_turn_on ==
    /\ Step("call")
    /\ Invoke("Segment.turn_on", Segment_turn_on(Head(todo).seg))

Call_Segment_sleep ==
    /\ Step("call")
    /\ Invoke("Segment.sleep", Segment_sleep(Head(todo).seg))

Call_Segment_clear ==
    /\ Step("call")
    /\ Invoke("Segment.clear", Segment_clear(Head(todo).seg))

Call_Epd17299_init ==
    /\ Step("call")
    /\ Invoke("Epd17299.__init__", Epd17299_init)

Call_Epd17299_enter ==
    /\ Step("call")
    /\ Invoke("Epd17299.__enter__", Epd17299_enter)

Call_Epd17299_clear ==
    /\ Step("call")
    /\ Invoke("Epd17299.clear", Epd17299_clear)

Call_Epd17299_sleep ==
    /\ Step("call")
    /\ Invoke("Epd17299.sleep", Epd17299_sleep)

Call_Epd17299_turn_on_display ==
    /\ Step("call")
    /\ Invoke("Epd17299.turn_on_display", Epd17299_turn_on_display)

Call_Segment_display ==
    /\ Step("call")
    /\ Invoke("Segment.display", Segment_display(Head(todo).seg))

\* p.display() or p.display(image): a call with more arguments than the
\* method has parameters raises TypeError before its body runs
Call_Epd17299_display ==
    /\ Step("call")
    /\ Head(todo).m = "Epd17299.display"
    /\ \E nargs \in { 0, 1 } :
         LET call == [op |-> "call", m |-> "Epd17299.display", seg |-> "-",
                      nargs |-> nargs]
         IN IF nargs # Epd17299_display_params
            THEN /\ RaiseExc("TypeError", << call >>)
                 /\ UNCHANGED << envVars, busVars, budgetVars, pinMode, initialized,
                                 ctxStack, disp, hist, pc >>
            ELSE /\ log' = Append(log, call)
                 /\ todo' = Epd17299_display \o << IRet("Epd17299.display", "-") >>
                            \o Tail(todo)
                 /\ UNCHANGED << envVars, busVars, budgetVars, exc, pinLevel, pinMode,
                                 initialized, ctxStack, txStack, disp, hist, pc >>

\* self.<name>: the attribute, or AttributeError when the object has none
GetAttr ==
    /\ Step("getattr")
    /\ IF Head(todo).name \in SegmentAttrs
       THEN /\ todo' = Tail(todo)
            /\ UNCHANGED << envVars, busVars, budgetVars, log, exc, pinLevel, pinMode,
                            initialized, ctxStack, txStack, disp, hist, pc >>
       ELSE /\ RaiseExc("AttributeError", << >>)
            /\ UNCHANGED << envVars, busVars, budgetVars, pinMode, initialized,
                            ctxStack, disp, hist, pc >>

\* Epd17299.__exit__, called by the `with` statement when its body is left
Call_Epd17299_exit ==
    /\ Step("with_exit")
    /\ log' = Append(log, ICall("Epd17299.__exit__", "-"))
    /\ todo' = Epd17299_exit \o << IRet("Epd17299.__exit__", "-") >> \o Tail(todo)
    /\ ctxStack' = << >>
    /\ UNCHANGED << envVars, busVars, budgetVars, exc, pinLevel, pinMode,
                    initialized, txStack, disp, hist, pc >>

Return ==
    /\ Step("ret")
    /\ log' = Append(log, Head(todo))
    /\ todo' = Tail(todo)
    /\ UNCHANGED << envVars, busVars, budgetVars, exc, pinLevel, pinMode,
                    initialized, ctxStack, txStack, disp, hist, pc >>

\* self._context_stack = contextlib.ExitStack()
NewStack ==
    /\ Step("new_stack")
    /\ ctxStack' = << >>
    /\ todo' = Tail(todo)
    /\ UNCHANGED << envVars, busVars, budgetVars, log, exc, pinLevel, pinMode,
                    initialized, txStack, disp, hist, pc >>

\* enter_context registers the segment's __exit__ once its __enter__ has returned
PushExit ==
    /\ Step("push_exit")
    /\ ctxStack' = Append(ctxStack, Head(todo).seg)
    /\ todo' = Tail(todo)
    /\ UNCHANGED << envVars, busVars, budgetVars, log, exc, pinLevel, pinMode,
                    initialized, txStack, disp, hist, pc >>

\* `as disp`: the value Epd17299.__enter__ returned
Bind ==
    /\ Step("bind")
    /\ disp' = Epd17299_enter_result
    /\ todo' = Tail(todo)
    /\ UNCHANGED << envVars, busVars, budgetVars, log, exc, pinLevel, pinMode,
                    initialized, ctxStack, txStack, hist, pc >>

\* the body of the `with`; from here on leaving it calls Epd17299.__exit__
Body ==
    /\ Step("body")
    /\ todo' = (IF client = "main" THEN << IDispClear >> ELSE << IChoose >>)
               \o << IWithExit >> \o Tail(todo)
    /\ UNCHANGED << envVars, busVars, budgetVars, log, exc, pinLevel, pinMode,
                    initialized, ctxStack, txStack, disp, hist, pc >>

\* `disp.clear()`: a call of Epd17299.clear when disp is the panel, an
\* AttributeError when it is None
DispClear ==
    /\ Step("disp_clear")
    /\ IF disp = "None"
       THEN /\ RaiseExc("AttributeError", << >>)
            /\ UNCHANGED << envVars, busVars, budgetVars, pinMode, initialized,
                            ctxStack, disp, hist, pc >>
       ELSE /\ todo' = << ICall("Epd17299.clear", "-") >> \o Tail(todo)
            /\ UNCHANGED << envVars, busVars, budgetVars, log, exc, pinLevel, pinMode,
                            initialized, ctxStack, txStack, disp, hist, pc >>

\* the client's next call
Choose ==
    /\ Step("choose")
    /\ callsLeft > 0
    /\ callsLeft' = callsLeft - 1
    /\ \E m \in (IF client = "panel" THEN PanelMethods ELSE SegmentMethods),
          guarded \in (IF client = "panel" THEN BOOLEAN ELSE { TRUE }) :
         todo' = << ICall(m, sut), IF guarded THEN ICatch ELSE IAfter >> \o todo
    /\ log' = << >>
    /\ UNCHANGED << envVars, busVars, faultsLeft, busyLeft, exc, pinLevel, pinMode,
                    initialized, ctxStack, txStack, disp, hist, pc >>

\* the client makes no further call
ChooseDone ==
    /\ Step("choose")
    /\ todo' = Tail(todo)
    /\ UNCHANGED << envVars, busVars, budgetVars, log, exc, pinLevel, pinMode,
                    initialized, ctxStack, txStack, disp, hist, pc >>

IsCmd(e, c) == e.op = "spi" /\ e.command /\ e.bytes = BytesOfInt(c)
CountCmd(l, c) == Cardinality({ i \in 1..Len(l) : IsCmd(l[i], c) })
CountSpi(l) == Cardinality({ i \in 1..Len(l) : l[i].op = "spi" })

\* what the client keeps of a call: the call, how it ended, what went over the bus
\* (of the runs of the initialization step and of the resets between them)
Kept == { "Segment.__enter__", "Segment.reset" }
Summary ==
    [m |-> log[1].m, seg |-> log[1].seg, exc |-> exc, sent |-> CountSpi(log) > 0,
     nPanelSetting |-> CountCmd(log, 0), nLastLut |-> CountCmd(log, 37)]

\* the call has returned to the panel client
After ==
    /\ Step("after")
    /\ hist' = IF log[1].m \in Kept THEN Append(hist, Summary) ELSE hist
    /\ todo' = Tail(todo)
    /\ UNCHANGED << envVars, busVars, budgetVars, log, exc, pinLevel, pinMode,
                    initialized, ctxStack, txStack, disp, pc >>

\* the call has returned to the segment client, or the client has caught what it raised
Catch ==
    /\ Step("catch")
    /\ hist' = IF log[1].m \in Kept THEN Append(hist, Summary) ELSE hist
    /\ exc' = "none"
    /\ todo' = Tail(todo)
    /\ UNCHANGED << envVars, busVars, budgetVars, log, pinLevel, pinMode,
                    initialized, ctxStack, txStack, disp, pc >>

\* the program ends, normally or by the exception nothing caught
End ==
    /\ Step("end")
    /\ pc' = IF exc = "none" THEN "done" ELSE "crashed"
    /\ todo' = << >>
    /\ UNCHANGED << envVars, busVars, budgetVars, log, exc, pinLevel, pinMode,
                    initialized, ctxStack, txStack, disp, hist >>

----------------------------------------------------------------------------
(* Specification *)

Init ==
    /\ strict \in BOOLEAN
    /\ client \in { "main", "panel", "segment", "bus" }
    /\ sut \in (IF client = "segment" THEN Segs ELSE { "-" })
    /\ stuck = { }
    /\ todo = Program(client)
    /\ log = << >>
    /\ exc = "none"
    /\ pinLevel = [k \in Keys |-> "unset"]
    /\ pinMode = [k \in Keys |-> "unset"]
    /\ initialized = [s \in Segs |-> FALSE]
    /\ hasDev = [s \in Owners |-> FALSE]
    /\ spi = [s \in Owners |-> NoHandle]
    /\ flags = [s \in Owners |-> 0]
    /\ nextHandle = 0
    /\ openHandles = { }
    /\ ctxStack = << >>
    /\ txStack = << >>
    /\ disp = "unbound"
    /\ callsLeft = MaxCalls
    /\ faultsLeft = MaxFaults
    /\ busyLeft = MaxBusy
    /\ hist = << >>
    /\ pc = "run"

Next ==
    \/ PiSetMode \/ PiWrite \/ PiWriteBadPin \/ TimeSleep
    \/ ChooseBus \/ NewBus \/ SpiOpen \/ SpiClose \/ SpiWrite \/ SpiWriteFail
    \/ PiRead \/ WhileTrue \/ SetInitialized
    \/ TransactionEnter \/ TransactionExit \/ Write \/ NoneAttribute
    \/ Call_Segment_init \/ Call_Segment_reset \/ Call_Segment_init_display
    \/ Call_Segment_enter \/ Call_Segment_exit \/ Call_Segment_send_lut
    \/ Call_Segment_wait_on_busy \/ Call_Segment_turn_on \/ Call_Segment_sleep
    \/ Call_Segment_clear \/ Call_Segment_display \/ GetAttr
    \/ Call_Epd17299_init \/ Call_Epd17299_enter \/ Call_Epd17299_clear
    \/ Call_Epd17299_sleep \/ Call_Epd17299_turn_on_display \/ Call_Epd17299_display
    \/ Call_Epd17299_exit
    \/ Return \/ NewStack \/ PushExit \/ Bind \/ Body \/ DispClear
    \/ Choose \/ ChooseDone \/ After \/ Catch \/ End

Spec == Init /\ [][Next]_vars

----------------------------------------------------------------------------
(* Reading the log *)

IsCall(e, m, s) == e.op = "call" /\ e.m = m /\ e.seg = s
IsRet(e, m) == e.op = "ret" /\ e.m = m
IsSpi(e) == e.op = "spi"
IsRead(e) == e.op = "read"

\* method m has just returned
JustReturned(m) == log # << >> /\ IsRet(log[Len(log)], m)

\* the events of the run of a method that returned at log[j]: from its call to its return
CallIndex(j) ==
    CHOOSE i \in 1..j :
        /\ IsCall(log[i], log[j].m, log[j].seg)
        /\ \A k \in (i + 1)..j : ~IsCall(log[k], log[j].m, log[j].seg)
RunBefore(j) == SubSeq(log, CallIndex(j) + 1, j - 1)
LastRun == RunBefore(Len(log))

Levels(events) == [i \in 1..Len(events) |-> events[i].lvl]
Values(events) == [i \in 1..Len(events) |-> events[i].val]

----------------------------------------------------------------------------
(* C1 *)

\* C1: every transaction drives its chip-select pin to the IDLE level exactly
\* once when its scope is left, whether the body ended normally or a write in
\* it raised.
C1_DeassertOnEveryExit ==
    \A i \in 1..Len(log) :
        log[i].op = "tx_exit" =>
            /\ i + 2 <= Len(log)
            /\ log[i + 1] = IPin(SegArgs(log[i].seg).cs, IdleLevel("ACTIVE_LOW"))
            /\ log[i + 2].op = "tx_closed"

----------------------------------------------------------------------------
(* C2 *)

IsEnterOf(h) == h.m = "Segment.__enter__"
NoResetBetween(i, j) == \A k \in (i + 1)..(j - 1) : hist[k].m # "Segment.reset"

\* C2: of two runs of the initialization step (Segment.__enter__) on a segment
\* with no reset in between, the later one sends nothing over the bus; when
\* the earlier one is the segment's first and returned, the two together have
\* sent the configuration sequence, from its panel-setting command to the last
\* table of the LUT upload, exactly once.
C2_InitSendsConfigOnce ==
    \A i, j \in 1..Len(hist) :
        (i < j /\ IsEnterOf(hist[i]) /\ IsEnterOf(hist[j]) /\ NoResetBetween(i, j)) =>
            /\ ~hist[j].sent
            /\ ((hist[i].exc = "none" /\ \A k \in 1..(i - 1) : ~IsEnterOf(hist[k])) =>
                   /\ hist[i].nPanelSetting + hist[j].nPanelSetting = 1
                   /\ hist[i].nLastLut + hist[j].nLastLut = 1)

\* two runs of the initialization step have returned, with no reset in between
C2_Witness ==
    /\ Len(hist) >= 2
    /\ IsEnterOf(hist[1]) /\ hist[1].exc = "none" /\ hist[1].sent
    /\ IsEnterOf(hist[2]) /\ hist[2].exc = "none"

----------------------------------------------------------------------------
(* C3 *)

OpenTransactions(s) == Cardinality({ i \in 1..Len(txStack) : txStack[i] = s })

\* C3: at most one transaction is open on a segment's bus channel.
C3_AtMostOneOpenTransaction == \A s \in Segs : OpenTransactions(s) <= 1

----------------------------------------------------------------------------
(* C4 *)

\* C4: a run of Segment.reset writes HIGH, LOW, HIGH to the segment's reset
\* pin (rst), with a hold after each of the first two writes.
C4_ResetPulsesResetPin ==
    JustReturned("Segment.reset") =>
        LET s == log[Len(log)].seg
            run == LastRun
            OnRst(e) == e.op = "pin" /\ e.key = SegArgs(s).rst
            writes == { i \in 1..Len(run) : OnRst(run[i]) }
        IN /\ Levels(SelectSeq(run, OnRst)) = << "HIGH", "LOW", "HIGH" >>
           /\ \A i \in writes :
                  (\E k \in writes : k > i) => (i < Len(run) /\ run[i + 1].op = "sleep")

----------------------------------------------------------------------------
(* C5 *)

\* C5: a run of Segment.clear sends command 0x10, then width*height/8 bytes
\* 0xFF, then command 0x13, then width*height/8 bytes 0x00 (stated for the
\* runs in which no bus write has failed so far).
C5_ClearSendsPackedPlanes ==
    (JustReturned("Segment.clear") /\ faultsLeft = MaxFaults) =>
        LET s == log[Len(log)].seg
            sent == SelectSeq(LastRun, IsSpi)
            n == (SegArgs(s).width * SegArgs(s).height) \div 8
        IN /\ Len(sent) = 4
           /\ IsCmd(sent[1], 16)
           /\ ~sent[2].command /\ BytesLen(sent[2].bytes) = n /\ AllBytes(sent[2].bytes, 255)
           /\ IsCmd(sent[3], 19)
           /\ ~sent[4].command /\ BytesLen(sent[4].bytes) = n /\ AllBytes(sent[4].bytes, 0)

----------------------------------------------------------------------------
(* C6 *)

InPanelClear == log # << >> /\ IsCall(log[1], "Epd17299.clear", "-")

\* the segment has received its plane c: the command, then data
HasPlane(s, c) ==
    \E i \in 1..(Len(log) - 4) :
        /\ IsCmd(log[i], c) /\ log[i].seg = s
        /\ \E k \in (i + 1)..(i + 4) : IsSpi(log[k]) /\ log[k].seg = s /\ ~log[k].command

\* power-on, display refresh, or the call of Segment.turn_on
IsTurnOnEvent(e) ==
    \/ e.op = "call" /\ e.m \in { "Segment.turn_on", "Epd17299.turn_on_display" }
    \/ IsCmd(e, 4)
    \/ IsCmd(e, 18)

SegmentsCalled(m) ==
    LET Is(e) == e.op = "call" /\ e.m = m
        calls == SelectSeq(log, Is)
    IN [i \in 1..Len(calls) |-> calls[i].seg]

\* C6: Epd17299.clear clears M1, M2, S1, S2 in that order; nothing of the
\* turn-on pass happens before all four segments have received both planes;
\* and when clear returns, each segment has been turned on exactly once.
C6_ClearThenOneTurnOnPass ==
    InPanelClear =>
        /\ \A n \in 1..4 :
               Len(SegmentsCalled("Segment.clear")) >= n =>
                   SegmentsCalled("Segment.clear")[n] = << "M1", "M2", "S1", "S2" >>[n]
        /\ Len(SegmentsCalled("Segment.clear")) <= 4
        /\ IsTurnOnEvent(log[Len(log)]) =>
               \A s \in Segs : HasPlane(s, 16) /\ HasPlane(s, 19)
        /\ JustReturned("Epd17299.clear") =>
               /\ Len(SegmentsCalled("Segment.clear")) = 4
               /\ Len(SegmentsCalled("Segment.turn_on")) = 4
               /\ \A s \in Segs :
                      /\ \E n \in 1..4 : SegmentsCalled("Segment.turn_on")[n] = s
                      /\ Cardinality({ i \in 1..Len(log) :
                                         IsCmd(log[i], 18) /\ log[i].seg = s }) = 1

\* Epd17299.clear has returned
C6_Witness == InPanelClear /\ JustReturned("Epd17299.clear")

----------------------------------------------------------------------------
(* C7 *)

\* C7: the entry point works: entering the scope yields the panel, clear()
\* runs on it and the program ends without an error (with a host driver that
\* accepts what the driver hands it and no bus write failing).
C7_EntryPointWorks ==
    (client = "main" /\ ~strict /\ faultsLeft = MaxFaults) =>
        /\ disp \in { "unbound", "panel" }
        /\ pc # "crashed"

----------------------------------------------------------------------------
(* C8 *)

\* C8: every read of the busy pin comes after a get-status command (0x71) of
\* the same poll; no poll follows one that read idle (0); and wait_on_busy
\* returns only after a poll that read idle, all polls before it having read
\* busy.
C8_WaitReturnsAtFirstIdle ==
    /\ (log # << >> /\ IsRead(log[Len(log)])) =>
           LET n == Len(log)
               s == log[n].seg
           IN /\ \E j \in 1..(n - 1) :
                     /\ IsCmd(log[j], 113) /\ log[j].seg = s
                     /\ \A k \in (j + 1)..(n - 1) : log[k].op = "pin"
              /\ \A i \in 1..(n - 1) :
                     (/\ IsRead(log[i]) /\ log[i].seg = s
                      /\ \A k \in i..n : ~IsCall(log[k], "Segment.wait_on_busy", s))
                     => log[i].val # 0
    /\ JustReturned("Segment.wait_on_busy") =>
           LET reads == SelectSeq(LastRun, IsRead)
           IN /\ Len(reads) >= 1
              /\ reads[Len(reads)].val = 0
              /\ \A i \in 1..(Len(reads) - 1) : reads[i].val # 0

\* wait_on_busy has returned after a poll that read busy and one that read idle
C8_Witness ==
    /\ JustReturned("Segment.wait_on_busy")
    /\ Values(SelectSeq(LastRun, IsRead)) = << 1, 0 >>

----------------------------------------------------------------------------
(* C9 *)

LutUpload == << lut_vcom1, lut_ww1, lut_bw1, lut_wb1, lut_bb1, lut_ww1 >>

----------------------------------------------------------------------------
(* C10 *)

\* a run of _init_display on s that an exception has ended
InitDisplayRaised(s) ==
    \E i \in 1..Len(log) :
        /\ IsCall(log[i], "Segment._init_display", s)
        /\ \A k \in i..Len(log) :
               ~(IsRet(log[k], "Segment._init_display") /\ log[k].seg = s)
        /\ \E k \in i..Len(log) : log[k].op = "raise"

\* C10: when a bus write fails in the configuration sequence, the segment's
\* initialized flag keeps the value it had before the call, false.
C10_FlagUntouchedOnError ==
    \A s \in Segs : InitDisplayRaised(s) => ~initialized[s]

----------------------------------------------------------------------------
(* C11 *)

\* C11: every bus channel a segment opened when the panel scope was entered
\* has been closed when the program has left the scope, whether the scope
\* ended normally, by an error raised inside it, or by an error raised while
\* a segment was being initialized during entry.
C11_ChannelsClosedOnEveryExit ==
    (client \in { "main", "panel" } /\ pc # "run") => openHandles = { }

----------------------------------------------------------------------------
(* C12 *)

\* a call p.display(image) of the panel client is over: it returned or raised
DisplayImageOver ==
    /\ log # << >>
    /\ IsCall(log[1], "Epd17299.display", "-") /\ log[1].nargs = 1
    /\ (exc # "none" \/ JustReturned("Epd17299.display"))

\* C12: Epd17299.display(image) ends without an error, with each of the four
\* segments having received its two planes (command 0x10 and data, command
\* 0x13 and data) and, after them, having been turned on (display refresh
\* 0x12) once.
C12_DisplaySendsPlanesThenTurnsOn ==
    DisplayImageOver =>
        /\ exc = "none"
        /\ \A s \in Segs :
               /\ HasPlane(s, 16) /\ HasPlane(s, 19)
               /\ Cardinality({ i \in 1..Len(log) :
                                  IsCmd(log[i], 18) /\ log[i].seg = s }) = 1

----------------------------------------------------------------------------
(* C13 *)

\* the port and the clock mode of the client's bus, read back from its flags
BusPortBit == (flags["bus"] \div 256) % 2
BusModeBits == flags["bus"] % 4

\* SPIBus.__enter__ of the client's bus has run: it opened a channel or raised
BusOpenOver ==
    /\ client = "bus" /\ hasDev["bus"]
    /\ (exc # "none" \/ \E i \in 1..Len(log) : log[i].op = "spi_open")

\* C13: opening a bus channel fails with InvalidConfig and opens no channel
\* when the configuration is invalid; stated for the configurations the
\* constructor can be given, the AUXILIARY port with clock mode 1 or 3.
C13_InvalidConfigRejected ==
    (BusOpenOver /\ BusPortBit = SPIPort("AUXILIARY") /\ BusModeBits \in { 1, 3 }) =>
        /\ exc = "InvalidConfig"
        /\ \A i \in 1..Len(log) : log[i].op # "spi_open"
        /\ nextHandle = 0

----------------------------------------------------------------------------
(* C14 *)

\* C14: the chip-select pin of a segment is at the ACTIVE level in every
\* state in which a transaction of the segment is open and at no other
\* time: before the first transaction and once a transaction has closed it
\* is not ACTIVE (stated for the runs in which no bus write has failed).
C14_ChipSelectFollowsTransaction ==
    faultsLeft = MaxFaults =>
        \A s \in Segs :
            (OpenTransactions(s) > 0) <=>
                (pinLevel[SegArgs(s).cs] = ActiveLevel("ACTIVE_LOW"))

----------------------------------------------------------------------------
(* C15 *)

\* the level the data/command pin has to be at during a transfer
DcLevel(command) ==
    IF command THEN ActiveLevel("ACTIVE_LOW") ELSE IdleLevel("ACTIVE_LOW")

\* C15: every byte transfer is the transfer of a write(payload, command)
\* whose only pin write before it drove the data/command pin to ACTIVE when
\* command is true and to IDLE otherwise, so that the pin is at that level
\* during the transfer; the next thing the write does is to drive the pin to
\* IDLE, where it is when the write is over.
C15_DataCommandSettledAroundTransfer ==
    LET n == Len(log) IN
    /\ (n >= 1 /\ IsSpi(log[n])) =>
           /\ n >= 3
           /\ log[n - 2].op = "write" /\ log[n - 2].seg = log[n].seg
           /\ log[n - 1] = IPin(SegArgs(log[n].seg).dc, DcLevel(log[n - 2].command))
           /\ log[n].command = log[n - 2].command
    /\ (n >= 2 /\ IsSpi(log[n - 1])) =>
           /\ log[n] = IPin(SegArgs(log[n - 1].seg).dc, IdleLevel("ACTIVE_LOW"))
           /\ pinLevel[SegArgs(log[n - 1].seg).dc] = IdleLevel("ACTIVE_LOW")

\* a write of a command is over, and before it a write of data
C15_Witness ==
    LET n == Len(log) IN
    /\ n >= 8
    /\ IsSpi(log[n - 1]) /\ log[n - 1].command /\ log[n].op = "pin"
    /\ IsSpi(log[n - 5]) /\ ~log[n - 5].command

----------------------------------------------------------------------------
(* C16 *)

IsMaster(s) == s \in { "M1", "M2" }

\* the commands of the configuration sequence with the length of the data of
\* each: << command, bytes of data >>
ConfigCommands(s) ==
    << << 0, 1 >> >>
    \o (IF IsMaster(s) THEN << << 1, 5 >>, << 6, 4 >> >> ELSE << >>)
    \o << << 97, 4 >>, << 21, 1 >>, << 21, 1 >>, << 80, 2 >>, << 96, 1 >> >>
    \o (IF IsMaster(s) THEN << << 224, 1 >> >> ELSE << >>)
    \o << << 227, 1 >> >>
    \o (IF IsMaster(s) THEN << << 130, 1 >> >> ELSE << >>)
    \o [k \in 1..6 |-> << 31 + k, 60 >>]

\* the value of two bytes read as a big-endian 16-bit integer
BigEndian16(b, i) == b[i][1] * 256 + b[i + 1][1]

\* C16: the configuration sequence a run of _init_display sends is, in this
\* order, each command followed by its data: panel-setting 0x00; for a master
\* (M1, M2) power-setting 0x01 with 5 bytes and booster soft-start 0x06 with
\* 4 bytes; resolution 0x61 with the width and the height of the segment as
\* two big-endian 16-bit values; 0x15 and 0x15 with one byte each;
\* VCOM-and-data-interval 0x50; TCON 0x60; for a master 0xE0 and 0x82 with
\* one byte each, on either side of the 0xE3 every segment receives; then
\* the LUT upload 0x20 .. 0x25.  A slave (S1, S2) receives none of 0x01,
\* 0x06, 0xE0, 0x82.
C16_ConfigSequenceByIdentity ==
    (JustReturned("Segment._init_display") /\ SelectSeq(LastRun, IsSpi) # << >>) =>
        LET s == log[Len(log)].seg
            sent == SelectSeq(LastRun, IsSpi)
            cfg == ConfigCommands(s)
        IN /\ Len(sent) = 2 * Len(cfg)
           /\ \A k \in 1..Len(cfg) :
                  /\ IsCmd(sent[2 * k - 1], cfg[k][1])
                  /\ ~sent[2 * k].command
                  /\ BytesLen(sent[2 * k].bytes) = cfg[k][2]
                  /\ cfg[k][1] = 97 =>
                         /\ BigEndian16(sent[2 * k].bytes, 1) = SegArgs(s).width
                         /\ BigEndian16(sent[2 * k].bytes, 3) = SegArgs(s).height
           /\ ~IsMaster(s) =>
                  \A i \in 1..Len(sent) :
                      \A c \in { 1, 6, 224, 130 } : ~IsCmd(sent[i], c)

\* a slave segment has been sent its configuration sequence
C16_Witness ==
    /\ JustReturned("Segment._init_display")
    /\ log[Len(log)].seg = "S1"
    /\ Len(SelectSeq(LastRun, IsSpi)) = 2 * 13

\* a master segment has been sent its configuration sequence
C16_WitnessMaster ==
    /\ JustReturned("Segment._init_display")
    /\ log[Len(log)].seg = "M2"
    /\ Len(SelectSeq(LastRun, IsSpi)) = 2 * 17

----------------------------------------------------------------------------
(* C17 *)

\* the level sleep() leaves a pin at: reset and data/command LOW, chip-select
\* at its inactive level
ParkedLevel(s, key) ==
    IF key = SegArgs(s).cs THEN IdleLevel("ACTIVE_LOW") ELSE "LOW"

\* C17: a run of Segment.sleep sends command 0x02, then command 0x07 with
\* the data byte 0xA5, and after them writes the segment's reset pin, its
\* data/command pin and its chip-select pin to their parked levels; when
\* sleep has returned the three pins are at those levels (stated for the runs
\* in which no bus write has failed so far).
C17_SleepParksPins ==
    (JustReturned("Segment.sleep") /\ faultsLeft = MaxFaults) =>
        LET s == log[Len(log)].seg
            run == LastRun
            sent == SelectSeq(run, IsSpi)
            parked == { SegArgs(s).rst, SegArgs(s).dc, SegArgs(s).cs }
        IN /\ Len(sent) = 3
           /\ IsCmd(sent[1], 2)
           /\ IsCmd(sent[2], 7)
           /\ ~sent[3].command /\ sent[3].bytes = BytesOfInt(165)
           /\ \A key \in parked :
                  /\ \E i \in 1..Len(run) :
                         /\ run[i] = IPin(key, ParkedLevel(s, key))
                         /\ \E j \in 1..(i - 1) : run[j] = sent[3]
                         /\ \A j \in (i + 1)..Len(run) : ~IsSpi(run[j])
                  /\ pinLevel[key] = ParkedLevel(s, key)

----------------------------------------------------------------------------
(* C18 *)

\* C18: reset() sets the initialized flag of the segment back to false, so
\* that the initialization step that follows a reset re-issues the
\* configuration sequence (stated for the runs in which no bus write has
\* failed).
C18_ResetClearsInitialized ==
    faultsLeft = MaxFaults =>
        /\ JustReturned("Segment.reset") => ~initialized[log[Len(log)].seg]
        /\ \A i, j \in 1..Len(hist) :
               (/\ j = i + 1
                /\ hist[i].m = "Segment.reset" /\ hist[i].exc = "none"
                /\ IsEnterOf(hist[j]) /\ hist[j].exc = "none")
               => (hist[j].sent /\ hist[j].nPanelSetting = 1)

----------------------------------------------------------------------------
(* C19 *)

\* the index of the call of the run of turn_on on s that has not returned, 0
\* when there is none
OpenTurnOn(s) ==
    LET calls == { i \in 1..Len(log) :
                     /\ IsCall(log[i], "Segment.turn_on", s)
                     /\ \A k \in (i + 1)..Len(log) :
                            ~(IsRet(log[k], "Segment.turn_on") /\ log[k].seg = s) }
    IN IF calls = { } THEN 0 ELSE CHOOSE i \in calls : \A k \in calls : k <= i

\* C19: a run of turn_on sends power-on (0x04) if and only if the segment is
\* a master, before display refresh (0x12), which it sends exactly once; and
\* wait_on_busy is called in it only when the refresh has been sent and the
\* transaction it was sent in has closed.
C19_TurnOnRefreshThenPoll ==
    /\ JustReturned("Segment.turn_on") =>
           LET s == log[Len(log)].seg
               sent == SelectSeq(LastRun, IsSpi)
               n4 == CountCmd(sent, 4)
           IN /\ n4 = (IF IsMaster(s) THEN 1 ELSE 0)
              /\ CountCmd(sent, 18) = 1
              /\ IsCmd(sent[n4 + 1], 18)
              /\ n4 = 1 => IsCmd(sent[1], 4)
    /\ \A s \in Segs :
           LET n == Len(log)
               c == OpenTurnOn(s)
           IN (c > 0 /\ IsCall(log[n], "Segment.wait_on_busy", s)) =>
                  /\ \E j \in (c + 1)..(n - 1) :
                         /\ IsCmd(log[j], 18) /\ log[j].seg = s
                         /\ \E k \in (j + 1)..(n - 1) :
                                log[k].op = "tx_closed" /\ log[k].seg = s
                  /\ OpenTransactions(s) = 0

\* turn_on of a master has returned after a poll that read busy
C19_Witness ==
    /\ JustReturned("Segment.turn_on")
    /\ log[Len(log)].seg = "M1"
    /\ CountCmd(LastRun, 4) = 1
    /\ Values(SelectSeq(LastRun, IsRead)) = << 1, 0 >>

----------------------------------------------------------------------------
(* C20 *)

\* the segments whose chip-select pin is at the ACTIVE level
Selected == { s \in Segs : pinLevel[SegArgs(s).cs] = ActiveLevel("ACTIVE_LOW") }

\* C20: in every state of a program that uses the panel (construction, scope
\* entry, clear, turn_on_display, sleep) at most one of the four segments has
\* its chip-select pin at the ACTIVE level.
C20_AtMostOneSegmentSelected ==
    client \in { "main", "panel" } => Cardinality(Selected) <= 1

----------------------------------------------------------------------------
(* Polling without a bound                                                  *)
(*                                                                          *)
(* `while True:` of wait_on_busy has no bound on the number of polls.  Spec *)
(* bounds the polls that read busy by MaxBusy; LiveSpec does not: a poll    *)
(* may read busy any number of times, a segment in `stuck` reads busy at    *)
(* every poll.  For the states to stay finitely many, the log of LiveSpec   *)
(* keeps of a run of wait_on_busy the events of the newest poll only.       *)

\* wait_on_busy leaving its loop after a poll that read busy
PollBusy_GiveUp ==
    /\ Step("read")
    /\ LET s == Head(todo).seg IN
       /\ log' = Append(log, [op |-> "read", seg |-> s,
                              key |-> SegArgs(s).busy, val |-> 1])
       /\ todo' = << todo[2] >> \o SubSeq(todo, 4, Len(todo))
    /\ UNCHANGED << envVars, busVars, budgetVars, exc, pinLevel, pinMode,
                    initialized, ctxStack, txStack, disp, hist, pc >>

\* `self.pi.read(self.busy)` returns 1: `continue`
PollBusy ==
    /\ Step("read")
    /\ LET s == Head(todo).seg IN
       log' = Append(log, [op |-> "read", seg |-> s,
                           key |-> SegArgs(s).busy, val |-> 1])
    /\ todo' = Tail(todo)
    /\ UNCHANGED << envVars, busVars, budgetVars, exc, pinLevel, pinMode,
                    initialized, ctxStack, txStack, disp, hist, pc >>

\* `self.pi.read(self.busy)` returns 0: `break`
PollIdle ==
    /\ Step("read")
    /\ Head(todo).seg \notin stuck
    /\ LET s == Head(todo).seg IN
       log' = Append(log, [op |-> "read", seg |-> s,
                           key |-> SegArgs(s).busy, val |-> 0])
    /\ todo' = << todo[2] >> \o SubSeq(todo, 4, Len(todo))
    /\ UNCHANGED << envVars, busVars, budgetVars, exc, pinLevel, pinMode,
                    initialized, ctxStack, txStack, disp, hist, pc >>

\* the log up to the call of the run of wait_on_busy on s that is under way
UpToWaitCall(s) ==
    LET c == CHOOSE i \in 1..Len(log) :
                 /\ IsCall(log[i], "Segment.wait_on_busy", s)
                 /\ \A k \in (i + 1)..Len(log) :
                        ~IsCall(log[k], "Segment.wait_on_busy", s)
    IN SubSeq(log, 1, c)

\* `while True:` once more
PollAgain ==
    /\ Step("loop")
    /\ todo' = Segment_wait_on_busy(Head(todo).seg) \o Tail(todo)
    /\ log' = UpToWaitCall(Head(todo).seg)
    /\ UNCHANGED << envVars, busVars, budgetVars, exc, pinLevel, pinMode,
                    initialized, ctxStack, txStack, disp, hist, pc >>

\* a panel client that makes one call, with a host driver that accepts every
\* call and a bus on which no write fails; at most one busy pin is stuck
LiveInit ==
    /\ strict = FALSE
    /\ client = "panel"
    /\ sut = "-"
    /\ stuck \in { { } } \cup { { s } : s \in Segs }
    /\ todo = Program(client)
    /\ log = << >>
    /\ exc = "none"
    /\ pinLevel = [k \in Keys |-> "unset"]
    /\ pinMode = [k \in Keys |-> "unset"]
    /\ initialized = [s \in Segs |-> FALSE]
    /\ hasDev = [s \in Owners |-> FALSE]
    /\ spi = [s \in Owners |-> NoHandle]
    /\ flags = [s \in Owners |-> 0]
    /\ nextHandle = 0
    /\ openHandles = { }
    /\ ctxStack = << >>
    /\ txStack = << >>
    /\ disp = "unbound"
    /\ callsLeft = 1
    /\ faultsLeft = 0
    /\ busyLeft = 0
    /\ hist = << >>
    /\ pc = "run"

LiveNext ==
    \/ PiSetMode \/ PiWrite \/ TimeSleep
    \/ NewBus \/ SpiOpen \/ SpiClose \/ SpiWrite
    \/ PollBusy \/ PollIdle \/ PollAgain \/ SetInitialized
    \/ TransactionEnter \/ TransactionExit \/ Write
    \/ Call_Segment_init \/ Call_Segment_reset \/ Call_Segment_init_display
    \/ Call_Segment_enter \/ Call_Segment_exit \/ Call_Segment_send_lut
    \/ Call_Segment_wait_on_busy \/ Call_Segment_turn_on \/ Call_Segment_sleep
    \/ Call_Segment_clear
    \/ Call_Epd17299_init \/ Call_Epd17299_enter \/ Call_Epd17299_clear
    \/ Call_Epd17299_sleep \/ Call_Epd17299_turn_on_display \/ Call_Epd17299_display
    \/ Call_Epd17299_exit
    \/ Return \/ NewStack \/ PushExit \/ Body
    \/ Choose \/ ChooseDone \/ After \/ Catch \/ End

\* the program runs on as long as it has a step to take, and a busy pin that
\* is not stuck does not read busy for ever
LiveSpec ==
    /\ LiveInit
    /\ [][LiveNext]_vars
    /\ WF_vars(LiveNext)
    /\ SF_vars(PollIdle)

----------------------------------------------------------------------------
(* C21 *)

\* the order in which turn_on_display turns the segments on
TurnOnOrder == << "M1", "M2", "S1", "S2" >>
TurnOnRank(s) == CHOOSE n \in 1..4 : TurnOnOrder[n] = s

RefreshSent(s) == \E i \in 1..Len(log) : IsCmd(log[i], 18) /\ log[i].seg = s
TurnedOn(s) ==
    \E i \in 1..Len(log) : IsRet(log[i], "Segment.turn_on") /\ log[i].seg = s

\* the client's call of Epd17299.clear is under way
ClearRunning ==
    /\ InPanelClear
    /\ \A i \in 1..Len(log) : ~IsRet(log[i], "Epd17299.clear")

\* Epd17299.clear has returned with the four segments turned on
ClearCompleted ==
    /\ InPanelClear /\ JustReturned("Epd17299.clear")
    /\ \A s \in Segs : RefreshSent(s) /\ TurnedOn(s)

\* C21: when no busy pin is stuck (every busy pin that is polled again and
\* again eventually reads idle) and no bus write fails, a call of
\* Epd17299.clear eventually returns with the four segments turned on; when
\* the busy pin of a segment never reads idle, clear never returns and no
\* segment after that one in the order M1, M2, S1, S2 is ever sent its
\* display refresh command (0x12).
C21_ClearTerminatesIffBusyClears ==
    /\ (ClearRunning /\ stuck = { }) ~> ClearCompleted
    /\ [](InPanelClear =>
            \A s \in stuck :
                /\ ~JustReturned("Epd17299.clear")
                /\ \A t \in Segs :
                       TurnOnRank(t) > TurnOnRank(s) => ~RefreshSent(t))

\* clear has completed after every segment was polled
C21_Witness ==
    /\ ClearCompleted
    /\ stuck = { }
    /\ Cardinality({ i \in 1..Len(log) : IsRead(log[i]) /\ log[i].val = 0 }) = 4

\* the busy pin of M2 is stuck and M2 is being polled once more
C21_WitnessBlocked ==
    /\ InPanelClear /\ stuck = { "M2" }
    /\ RefreshSent("M1") /\ RefreshSent("M2")
    /\ log[Len(log)].op = "read" /\ log[Len(log)].seg = "M2"

============================================================================
